---- MODULE Spec2Model ----
(***************************************************************************)
(* The two notebooks of how-to-guides held in                              *)
(* theatre-programs-prototype/SLV_LAB_getting_started_NER.ipynb:           *)
(*   - "Getting started with Named Entity Recognition" (NER), and          *)
(*   - "How to use IIIF to access State Library Victoria's digitised       *)
(*     materials" (IIIF).                                                  *)
(* A notebook is a list of code cells run by one kernel.  The state is the *)
(* kernel's namespace, the position of the statement being executed, the   *)
(* HTTP requests issued and outstanding, and the NLTK datasets on disk.    *)
(* Strings are TLA+ strings; an f-string is a concatenation, an URL is cut *)
(* at its '/' characters.                                                  *)
(***************************************************************************)
EXTENDS Integers, Sequences, FiniteSets, TLC

(* Bounds of the model. *)
MaxManualRuns == 2

----------------------------------------------------------------------------
(* Strings *)

Char(s, i) == SubSeq(s, i, i)

IsPrefix(p, s) == Len(p) <= Len(s) /\ SubSeq(s, 1, Len(p)) = p

Drop(s, n) == SubSeq(s, n + 1, Len(s))

RECURSIVE SplitFrom(_, _, _, _)
SplitFrom(s, sep, i, cur) ==
    IF i > Len(s) THEN << cur >>
    ELSE IF Char(s, i) = sep THEN << cur >> \o SplitFrom(s, sep, i + 1, "")
    ELSE SplitFrom(s, sep, i + 1, cur \o Char(s, i))

(* str.split(sep) of Python: the pieces between the separators. *)
Split(s, sep) == SplitFrom(s, sep, 1, "")

----------------------------------------------------------------------------
(* The NLTK calls of the NER notebook.  NLTK is a library the notebook     *)
(* calls; its tokenizer rules are modelled as far as the notebook's        *)
(* sentence exercises them, and the decisions of its pretrained tagger and *)
(* chunker are the ones the notebook records as cell outputs.              *)

about_slv_literal ==
    "\n    Located in Melbourne, it was established in 1854 as the Melbourne Public Library,\n    making it Australia's oldest public library and one of the first free libraries in the world.\n    "

Whitespace == {" ", "\n", "\t"}

Digits == {"0", "1", "2", "3", "4", "5", "6", "7", "8", "9"}

Min(S) == CHOOSE x \in S : \A y \in S : x <= y

Blanks(s, i) == {j \in i..Len(s) : Char(s, j) \in Whitespace}

NonBlanks(s, i) == {j \in i..Len(s) : Char(s, j) \notin Whitespace}

RECURSIVE WordsFrom(_, _)
WordsFrom(s, i) ==
    IF NonBlanks(s, i) = {} THEN << >>
    ELSE LET first == Min(NonBlanks(s, i))
             end == IF Blanks(s, first) = {} THEN Len(s) + 1 ELSE Min(Blanks(s, first))
         IN  << SubSeq(s, first, end - 1) >> \o WordsFrom(s, end)

(* str.split(): the words between runs of blanks; leading and trailing     *)
(* blanks give no word.                                                    *)
Words(s) == WordsFrom(s, 1)

Flush(toks, cur) == IF cur = "" THEN toks ELSE Append(toks, cur)

(* The clitics the Treebank tokenizer cuts off the end of a word: 's 'm 'd *)
(* after a character that is not a quote.                                  *)
IsClitic(w, i, cur) ==
    /\ Char(w, i) = "'"
    /\ cur # "" /\ Char(cur, Len(cur)) # "'"
    /\ i + 1 = Len(w)
    /\ Char(w, i + 1) \in {"s", "S", "m", "M", "d", "D"}

RECURSIVE Scan(_, _, _, _, _)
(* The tokens of one word: a comma or colon not followed by a digit is a   *)
(* token, the period that ends the text is a token, a clitic is a token.   *)
Scan(w, i, toks, cur, last) ==
    IF i > Len(w) THEN Flush(toks, cur)
    ELSE LET c == Char(w, i)
             nxt == IF i < Len(w) THEN Char(w, i + 1) ELSE ""
         IN  IF c \in {",", ":"} /\ nxt \notin Digits
               THEN Scan(w, i + 1, Append(Flush(toks, cur), c), "", last)
             ELSE IF c = "." /\ cur # "" /\ i = Len(w) /\ last
               THEN Scan(w, i + 1, Append(Flush(toks, cur), c), "", last)
             ELSE IF IsClitic(w, i, cur)
               THEN Scan(w, i + 1, Flush(toks, cur), c, last)
             ELSE Scan(w, i + 1, toks, cur \o c, last)

RECURSIVE TokensFrom(_, _)
TokensFrom(words, k) ==
    IF k > Len(words) THEN << >>
    ELSE Scan(words[k], 1, << >>, "", k = Len(words)) \o TokensFrom(words, k + 1)

(* Fault: the text is cut at blanks only, as str.split() does. *)
word_tokenize_split(text) == Words(text)

(* nltk.word_tokenize(text): the words between blanks, with a comma, the   *)
(* sentence-final period and a possessive clitic cut off as tokens of      *)
(* their own.                                                              *)
word_tokenize(text) == TokensFrom(Words(text), 1)

(* The tag the pretrained tagger gave each word of the sentence. *)
TagOf ==
    "Located" :> "VBN" @@ "in" :> "IN" @@ "Melbourne" :> "NNP" @@
    "," :> "," @@ "it" :> "PRP" @@ "was" :> "VBD" @@
    "established" :> "VBN" @@ "1854" :> "CD" @@ "as" :> "IN" @@
    "the" :> "DT" @@ "Public" :> "NNP" @@ "Library" :> "NNP" @@
    "making" :> "VBG" @@ "Australia" :> "NNP" @@ "'s" :> "POS" @@
    "oldest" :> "JJS" @@ "public" :> "JJ" @@ "library" :> "NN" @@
    "and" :> "CC" @@ "one" :> "CD" @@ "of" :> "IN" @@ "first" :> "JJ" @@
    "free" :> "JJ" @@ "libraries" :> "NNS" @@ "world" :> "NN" @@
    "." :> "."

(* A word the recorded run does not tag is given the tagger's default. *)
TagWord(w) == IF w \in DOMAIN TagOf THEN TagOf[w] ELSE "NN"

(* Fault: the pairs come out in reverse token order. *)
pos_tag_reversed(tokens) ==
    [i \in 1..Len(tokens) |->
        << tokens[Len(tokens) + 1 - i], TagWord(tokens[Len(tokens) + 1 - i]) >>]

(* nltk.pos_tag(tokens): one (token, tag) pair per token, in token order. *)
pos_tag(tokens) == [i \in 1..Len(tokens) |-> << tokens[i], TagWord(tokens[i]) >>]

Tok(word, tag) == [leaf |-> << word, tag >>]

Tree(label, children) == [label |-> label, children |-> children]

IsLeaf(node) == "leaf" \in DOMAIN node

(* The categories that entities are added to in NLTK, by the label the     *)
(* chunker gives each: Persons, Organizations, Locations, Facilities,      *)
(* Geographical Political Entities (GPE).                                  *)
Categories == {"PERSON", "ORGANIZATION", "LOCATION", "FACILITY", "GPE"}

(* The tree the chunker returned for the sentence (the cell's output). *)
RecordedTree ==
    Tree("S", <<
        Tok("Located", "VBN"), Tok("in", "IN"),
        Tree("GPE", << Tok("Melbourne", "NNP") >>),
        Tok(",", ","), Tok("it", "PRP"), Tok("was", "VBD"),
        Tok("established", "VBN"), Tok("in", "IN"), Tok("1854", "CD"),
        Tok("as", "IN"), Tok("the", "DT"),
        Tree("ORGANIZATION", << Tok("Melbourne", "NNP"),
                                Tok("Public", "NNP"),
                                Tok("Library", "NNP") >>),
        Tok(",", ","), Tok("making", "VBG"), Tok("it", "PRP"),
        Tree("GPE", << Tok("Australia", "NNP") >>),
        Tok("'s", "POS"), Tok("oldest", "JJS"), Tok("public", "JJ"),
        Tok("library", "NN"), Tok("and", "CC"), Tok("one", "CD"),
        Tok("of", "IN"), Tok("the", "DT"), Tok("first", "JJ"),
        Tok("free", "JJ"), Tok("libraries", "NNS"), Tok("in", "IN"),
        Tok("the", "DT"), Tok("world", "NN"), Tok(".", ".") >>)

RECURSIVE Leaves(_)
(* tree.leaves(): the tagged tokens under a node, left to right. *)
Leaves(node) ==
    IF IsLeaf(node) THEN << node.leaf >>
    ELSE LET RECURSIVE Cat(_)
             Cat(k) == IF k > Len(node.children) THEN << >>
                       ELSE Leaves(node.children[k]) \o Cat(k + 1)
         IN  Cat(1)

(* Fault: the organisation's span starts one token late. *)
ne_chunk_late(tagged_tokens) ==
    Tree("S", [i \in 1..(Len(tagged_tokens) - 2) |->
        IF i = 3 THEN Tree("GPE", << Tok(tagged_tokens[3][1], tagged_tokens[3][2]) >>)
        ELSE IF i = 13 THEN Tree("ORGANIZATION",
                                 << Tok(tagged_tokens[13][1], tagged_tokens[13][2]),
                                    Tok(tagged_tokens[14][1], tagged_tokens[14][2]),
                                    Tok(tagged_tokens[15][1], tagged_tokens[15][2]) >>)
        ELSE IF i < 13 THEN Tok(tagged_tokens[i][1], tagged_tokens[i][2])
        ELSE Tok(tagged_tokens[i + 2][1], tagged_tokens[i + 2][2])])

(* Fault: the chunker rewrites the tag of a proper noun it marks. *)
ne_chunk_retagged(tagged_tokens) ==
    Tree("S", [i \in 1..Len(tagged_tokens) |->
        IF tagged_tokens[i][2] = "NNP"
          THEN Tree("GPE", << Tok(tagged_tokens[i][1], "NE") >>)
          ELSE Tok(tagged_tokens[i][1], tagged_tokens[i][2])])

(* Fault: the chunker marks numbers with a label outside the documented    *)
(* categories.                                                             *)
ne_chunk_dated(tagged_tokens) ==
    Tree("S", [i \in 1..Len(tagged_tokens) |->
        IF tagged_tokens[i][2] = "CD"
          THEN Tree("DATE", << Tok(tagged_tokens[i][1], tagged_tokens[i][2]) >>)
          ELSE Tok(tagged_tokens[i][1], tagged_tokens[i][2])])

(* nltk.ne_chunk(tagged_tokens): the recorded tree for the recorded        *)
(* sentence; the chunker's decisions on any other input are not recorded,  *)
(* and the tree then holds the tagged tokens with no entity marked.        *)
ne_chunk(tagged_tokens) ==
    IF tagged_tokens = Leaves(RecordedTree) THEN RecordedTree
    ELSE Tree("S", [i \in 1..Len(tagged_tokens) |->
                        Tok(tagged_tokens[i][1], tagged_tokens[i][2])])

(* The dataset each NLTK call loads; a dataset that is not on disk makes   *)
(* the call raise LookupError.                                             *)
Needs(op) ==
    CASE op = "word_tokenize" -> {"punkt_tab"}
      [] op = "pos_tag"       -> {"averaged_perceptron_tagger_eng"}
      [] op = "ne_chunk"      -> {"maxent_ne_chunker_tab", "words"}
      [] op = "upenn_tagset"  -> {"tagsets_json"}

----------------------------------------------------------------------------
(* Statements.  A cell is the sequence of its statements; a statement      *)
(* names the variables it reads (a read of an unbound name raises          *)
(* NameError) and the variable it binds.                                   *)

Import(module, name) == [op |-> "import", reads |-> {}, target |-> name]

Shell(cmd) == [op |-> "shell", reads |-> {}, cmd |-> cmd]

Download(dataset) == [op |-> "download", reads |-> {"nltk"}, dataset |-> dataset]

Lit(target, value) == [op |-> "lit", reads |-> {}, target |-> target, value |-> value]

V(name) == [var |-> name]

T(text) == [lit |-> text]

PartVars(parts) == {parts[k].var : k \in {j \in DOMAIN parts : "var" \in DOMAIN parts[j]}}

FStr(target, parts) ==
    [op |-> "fstr", reads |-> PartVars(parts), target |-> target, parts |-> parts]

Get(target, url) ==
    [op |-> "get", reads |-> {"requests", url}, target |-> target, url |-> url,
     image |-> FALSE]

GetImage(target, url) ==
    [op |-> "get", reads |-> {"Image", "requests", url}, target |-> target, url |-> url,
     image |-> TRUE]

Json(target, from) == [op |-> "json", reads |-> {from}, target |-> target, from |-> from]

New(target, module) == [op |-> "new", reads |-> {module}, target |-> target]

Expr(reads) == [op |-> "expr", reads |-> reads]

Key(k) == [key |-> k]

Idx(i) == [idx |-> i]

Subscript(target, from, path) ==
    [op |-> "subscript", reads |-> {from}, target |-> target, from |-> from, path |-> path]

PrintAt(label, from, path) ==
    [op |-> "print", reads |-> {from}, label |-> label, from |-> from, path |-> path]

For(target, iter, body) ==
    [op |-> "for", reads |-> {iter}, target |-> target, iter |-> iter, body |-> body]

Nltk(target, fn, arg) ==
    [op |-> "nltk", reads |-> {"nltk"} \cup (IF arg = "" THEN {} ELSE {arg}),
     target |-> target, fn |-> fn, arg |-> arg]

----------------------------------------------------------------------------
(* The code cells of the NER notebook, in document order. *)

Cell_8HvTjwj91kF3 == << Shell("pip install nltk svgling") >>

Cell_6BqJvBufCY1V == <<
    Import("nltk", "nltk"),
    Download("punkt_tab"),
    Download("averaged_perceptron_tagger_eng"),
    Download("maxent_ne_chunker_tab"),
    Download("words"),
    Download("tagsets_json") >>

Cell_2nkFUSDVAcnN == << Lit("about_slv", about_slv_literal) >>

Cell_5PEqLy0BHlpA == <<
    Nltk("tokens", "word_tokenize", "about_slv"),
    Expr({"tokens"}) >>

Cell_gVZ7inqCvCAr == <<
    Nltk("tagged_tokens", "pos_tag", "tokens"),
    Expr({"tagged_tokens"}) >>

Cell_xIH2sTeOsbZw == << Nltk("", "upenn_tagset", "") >>

Cell_SOdsPiiTtno8 == << Nltk("", "upenn_tagset", "") >>

Cell_J8_dmmr9JpSg == <<
    Import("svgling", "svgling"),
    Nltk("entities", "ne_chunk", "tagged_tokens"),
    Expr({"svgling", "entities"}) >>

NerCells == << "8HvTjwj91kF3", "6BqJvBufCY1V", "2nkFUSDVAcnN", "5PEqLy0BHlpA",
               "gVZ7inqCvCAr", "xIH2sTeOsbZw", "SOdsPiiTtno8", "J8_dmmr9JpSg" >>

----------------------------------------------------------------------------
(* The code cells of the IIIF notebook, in document order. *)

Cell_K8WrZ_PCo_eM == << Lit("ie_pid", "IE145082") >>

(* Fault: the manifest request is made a second time. *)
Cell_6MT9Vw7lpwTJ_twice == <<
    Import("requests", "requests"),
    Import("pprint", "pprint"),
    FStr("manifest_url",
         << T("https://rosetta.slv.vic.gov.au/delivery/iiif/presentation/2.1/"),
            V("ie_pid"), T("/manifest") >>),
    Get("response", "manifest_url"),
    Get("response", "manifest_url"),
    Json("manifest", "response"),
    New("pp", "pprint"),
    Expr({"pp", "manifest"}) >>

Cell_6MT9Vw7lpwTJ == <<
    Import("requests", "requests"),
    Import("pprint", "pprint"),
    FStr("manifest_url",
         << T("https://rosetta.slv.vic.gov.au/delivery/iiif/presentation/2.1/"),
            V("ie_pid"), T("/manifest") >>),
    Get("response", "manifest_url"),
    Json("manifest", "response"),
    New("pp", "pprint"),
    Expr({"pp", "manifest"}) >>

Cell_WjRzwXv8XIL8 == <<
    Subscript("attribution", "manifest", << Key("attribution") >>),
    Subscript("title", "manifest", << Key("label") >>),
    Expr({"attribution", "title"}) >>

Cell__r8UxFqdaDwP == <<
    Subscript("canvases", "manifest", << Key("sequences"), Idx(0), Key("canvases") >>),
    Expr({"canvases"}) >>

(* Fault: the loop looks for the fields in the image entry itself. *)
Cell_HM_Mm5aLadB__direct == <<
    For("canvas", "canvases", <<
        PrintAt("Image ID", "canvas",
                << Key("images"), Idx(0), Key("service"), Key("@id") >>),
        PrintAt("Format", "canvas",
                << Key("images"), Idx(0), Key("format") >>),
        PrintAt("Width", "canvas",
                << Key("images"), Idx(0), Key("width") >>),
        PrintAt("Height", "canvas",
                << Key("images"), Idx(0), Key("height") >>) >>) >>

Cell_HM_Mm5aLadB_ == <<
    For("canvas", "canvases", <<
        PrintAt("Image ID", "canvas",
                << Key("images"), Idx(0), Key("resource"), Key("service"), Key("@id") >>),
        PrintAt("Format", "canvas",
                << Key("images"), Idx(0), Key("resource"), Key("format") >>),
        PrintAt("Width", "canvas",
                << Key("images"), Idx(0), Key("resource"), Key("width") >>),
        PrintAt("Height", "canvas",
                << Key("images"), Idx(0), Key("resource"), Key("height") >>) >>) >>

(* Fault: image_id is taken from the second canvas. *)
Cell_mi4YnlC7bgnO_second == <<
    Subscript("image_id", "canvases",
              << Idx(1), Key("images"), Idx(0), Key("resource"), Key("service"), Key("@id") >>),
    Expr({"image_id"}) >>

Cell_mi4YnlC7bgnO == <<
    Subscript("image_id", "canvases",
              << Idx(0), Key("images"), Idx(0), Key("resource"), Key("service"), Key("@id") >>),
    Expr({"image_id"}) >>

Cell_yiMY_cLUroMv == <<
    Import("PIL", "Image"),
    FStr("image_url", << V("image_id"), T("/full/max/0/default.jpg") >>),
    GetImage("img", "image_url"),
    Expr({"img"}) >>

(* Fault: the size cell asks for the image turned by 90 degrees. *)
Cell_4KtWqlaEtEuP_rotated == <<
    Lit("region", "full"),
    Lit("rotation", "90"),
    Lit("size", "pct:10"),
    Lit("quality", "default"),
    FStr("image_url", << V("image_id"), T("/"), V("region"), T("/"), V("size"), T("/"),
                         V("rotation"), T("/"), V("quality"), T(".jpg") >>),
    GetImage("img", "image_url"),
    Expr({"img"}) >>

(* Fault: size and region change places in the f-string. *)
Cell_4KtWqlaEtEuP_swapped == <<
    Lit("region", "full"),
    Lit("rotation", "0"),
    Lit("size", "pct:10"),
    Lit("quality", "default"),
    FStr("image_url", << V("image_id"), T("/"), V("size"), T("/"), V("region"), T("/"),
                         V("rotation"), T("/"), V("quality"), T(".jpg") >>),
    GetImage("img", "image_url"),
    Expr({"img"}) >>

Cell_4KtWqlaEtEuP == <<
    Lit("region", "full"),
    Lit("rotation", "0"),
    Lit("size", "pct:10"),
    Lit("quality", "default"),
    FStr("image_url", << V("image_id"), T("/"), V("region"), T("/"), V("size"), T("/"),
                         V("rotation"), T("/"), V("quality"), T(".jpg") >>),
    GetImage("img", "image_url"),
    Expr({"img"}) >>

(* Fault: the quality cell also asks for another size. *)
Cell_ejjpwN7yEwvU_resized == <<
    Lit("quality", "gray"),
    Lit("size", "pct:20"),
    FStr("image_url", << V("image_id"), T("/"), V("region"), T("/"), V("size"), T("/"),
                         V("rotation"), T("/"), V("quality"), T(".jpg") >>),
    GetImage("img", "image_url"),
    Expr({"img"}) >>

(* Fault: the quality is written into the f-string instead of read from   *)
(* the variable.                                                           *)
Cell_ejjpwN7yEwvU_literal == <<
    Lit("quality", "gray"),
    FStr("image_url", << V("image_id"), T("/"), V("region"), T("/"), V("size"), T("/"),
                         V("rotation"), T("/default.jpg") >>),
    GetImage("img", "image_url"),
    Expr({"img"}) >>

Cell_ejjpwN7yEwvU == <<
    Lit("quality", "gray"),
    FStr("image_url", << V("image_id"), T("/"), V("region"), T("/"), V("size"), T("/"),
                         V("rotation"), T("/"), V("quality"), T(".jpg") >>),
    GetImage("img", "image_url"),
    Expr({"img"}) >>

(* Fault: the region cell turns to another image of the work. *)
Cell_zJrC2kW3D1x0_reassigns == <<
    Lit("image_id", "https://rosetta.slv.vic.gov.au:2083/iiif/2/IE145082:FL21000769.jpg"),
    Lit("region", "0,1400,2400,2300"),
    Lit("size", "pct:15"),
    FStr("image_url", << V("image_id"), T("/"), V("region"), T("/"), V("size"), T("/"),
                         V("rotation"), T("/"), V("quality"), T(".jpg") >>),
    GetImage("img", "image_url"),
    Expr({"img"}) >>

Cell_zJrC2kW3D1x0 == <<
    Lit("region", "0,1400,2400,2300"),
    Lit("size", "pct:15"),
    FStr("image_url", << V("image_id"), T("/"), V("region"), T("/"), V("size"), T("/"),
                         V("rotation"), T("/"), V("quality"), T(".jpg") >>),
    GetImage("img", "image_url"),
    Expr({"img"}) >>

(* Fault: the last image cell sets the quality back to default. *)
Cell_XB4vBnMtf5N8_default == <<
    Lit("region", "3400,1400,2700,2700"),
    Lit("quality", "default"),
    FStr("image_url", << V("image_id"), T("/"), V("region"), T("/"), V("size"), T("/"),
                         V("rotation"), T("/"), V("quality"), T(".jpg") >>),
    GetImage("img", "image_url"),
    Expr({"img"}) >>

(* Fault: the last image cell asks for the region at full size. *)
Cell_XB4vBnMtf5N8_max == <<
    Lit("region", "3400,1400,2700,2700"),
    Lit("size", "max"),
    FStr("image_url", << V("image_id"), T("/"), V("region"), T("/"), V("size"), T("/"),
                         V("rotation"), T("/"), V("quality"), T(".jpg") >>),
    GetImage("img", "image_url"),
    Expr({"img"}) >>

Cell_XB4vBnMtf5N8 == <<
    Lit("region", "3400,1400,2700,2700"),
    FStr("image_url", << V("image_id"), T("/"), V("region"), T("/"), V("size"), T("/"),
                         V("rotation"), T("/"), V("quality"), T(".jpg") >>),
    GetImage("img", "image_url"),
    Expr({"img"}) >>

(* Fault: the first image cell stands before the cell that binds image_id. *)
IiifCells_misordered ==
    << "K8WrZ_PCo-eM", "6MT9Vw7lpwTJ", "WjRzwXv8XIL8", "_r8UxFqdaDwP",
       "HM_Mm5aLadB_", "yiMY_cLUroMv", "mi4YnlC7bgnO", "4KtWqlaEtEuP",
       "ejjpwN7yEwvU", "zJrC2kW3D1x0", "XB4vBnMtf5N8" >>

IiifCells == << "K8WrZ_PCo-eM", "6MT9Vw7lpwTJ", "WjRzwXv8XIL8", "_r8UxFqdaDwP",
                "HM_Mm5aLadB_", "mi4YnlC7bgnO", "yiMY_cLUroMv", "4KtWqlaEtEuP",
                "ejjpwN7yEwvU", "zJrC2kW3D1x0", "XB4vBnMtf5N8" >>

ImageCells == {"yiMY_cLUroMv", "4KtWqlaEtEuP", "ejjpwN7yEwvU", "zJrC2kW3D1x0",
               "XB4vBnMtf5N8"}

Code(c) ==
    CASE c = "8HvTjwj91kF3" -> Cell_8HvTjwj91kF3
      [] c = "6BqJvBufCY1V" -> Cell_6BqJvBufCY1V
      [] c = "2nkFUSDVAcnN" -> Cell_2nkFUSDVAcnN
      [] c = "5PEqLy0BHlpA" -> Cell_5PEqLy0BHlpA
      [] c = "gVZ7inqCvCAr" -> Cell_gVZ7inqCvCAr
      [] c = "xIH2sTeOsbZw" -> Cell_xIH2sTeOsbZw
      [] c = "SOdsPiiTtno8" -> Cell_SOdsPiiTtno8
      [] c = "J8_dmmr9JpSg" -> Cell_J8_dmmr9JpSg
      [] c = "K8WrZ_PCo-eM" -> Cell_K8WrZ_PCo_eM
      [] c = "6MT9Vw7lpwTJ" -> Cell_6MT9Vw7lpwTJ
      [] c = "WjRzwXv8XIL8" -> Cell_WjRzwXv8XIL8
      [] c = "_r8UxFqdaDwP" -> Cell__r8UxFqdaDwP
      [] c = "HM_Mm5aLadB_" -> Cell_HM_Mm5aLadB_
      [] c = "mi4YnlC7bgnO" -> Cell_mi4YnlC7bgnO
      [] c = "yiMY_cLUroMv" -> Cell_yiMY_cLUroMv
      [] c = "4KtWqlaEtEuP" -> Cell_4KtWqlaEtEuP
      [] c = "ejjpwN7yEwvU" -> Cell_ejjpwN7yEwvU
      [] c = "zJrC2kW3D1x0" -> Cell_zJrC2kW3D1x0
      [] c = "XB4vBnMtf5N8" -> Cell_XB4vBnMtf5N8

Cells(nb) == IF nb = "NER" THEN NerCells ELSE IiifCells

----------------------------------------------------------------------------
(* What the servers may answer.  The manifest is the one the notebook      *)
(* documents; the other bodies are answers the code does not expect.       *)

Resource(id, height, width) ==
    [format |-> "image/jpeg", service |-> ("@id" :> id), height |-> height, width |-> width]

Canvas(resource) == [images |-> << [resource |-> resource] >>]

Manifest(canvases) ==
    [attribution |-> "This work is out of copyright",
     description |-> "",
     label |-> "[Berkshire pig with points marked on image]",
     sequences |-> << [canvases |-> canvases] >>]

DocumentedResource ==
    Resource("https://rosetta.slv.vic.gov.au:2083/iiif/2/IE145082:FL21000768.jpg", 5257, 7000)

OtherResource ==
    Resource("https://rosetta.slv.vic.gov.au:2083/iiif/2/IE145082:FL21000769.jpg", 3000, 2000)

JsonBodies ==
    { Manifest(<< Canvas(DocumentedResource) >>),
      Manifest(<< Canvas(DocumentedResource), Canvas(OtherResource) >>),
      Manifest(<< Canvas(OtherResource), Canvas([format |-> "image/jpeg"]) >>),
      Manifest(<< >>),
      [error |-> "Not Found"] }

(* The answers to the manifest request: a JSON body, or one that is not JSON. *)
ManifestResponses ==
    {[json |-> TRUE, body |-> b] : b \in JsonBodies}
        \cup {[json |-> FALSE, body |-> [html |-> "Service Unavailable"]]}

----------------------------------------------------------------------------
(* The kernel. *)

VARIABLES
    notebook,    \* the notebook this kernel runs: "NER" or "IIIF"
    runAll,      \* the top-to-bottom run: "off", "running", "done", "aborted"
    cursor,      \* position in document order of the run's next cell
    manualRuns,  \* cells the reader has executed one by one
    pc,          \* the statement being executed, or idle
    ns,          \* the values of the notebook's variables
    bound,       \* the names bound in the kernel's namespace
    err,         \* the exception that ended the last cell, or "none"
    gets,        \* every HTTP GET issued, in order
    inflight,    \* the HTTP requests issued and not yet answered
    stdout,      \* what the cell being executed has printed
    datasets     \* the NLTK datasets on disk

vars == << notebook, runAll, cursor, manualRuns, pc, ns, bound, err, gets,
           inflight, stdout, datasets >>

Idle == [cell |-> "idle", stmt |-> 0, phase |-> "run", iter |-> 0, body |-> 0]

At(c, n) == [cell |-> c, stmt |-> n, phase |-> "run", iter |-> 0, body |-> 0]

Running == pc.cell # "idle"

(* The statement at pc: a statement of the cell, or of the body of its loop. *)
Stmt ==
    IF pc.body > 0 THEN Code(pc.cell)[pc.stmt].body[pc.body]
    ELSE Code(pc.cell)[pc.stmt]

Ready(op) ==
    /\ Running
    /\ pc.phase = "run"
    /\ Stmt.op = op
    /\ Stmt.reads \subseteq bound

Unbound ==
    [about_slv |-> "", tokens |-> << >>, tagged_tokens |-> << >>,
     entities |-> Tree("", << >>),
     ie_pid |-> "", manifest_url |-> "",
     response |-> [json |-> FALSE, body |-> [none |-> TRUE]],
     manifest |-> [none |-> TRUE], attribution |-> "", title |-> "",
     canvases |-> << >>, canvas |-> [none |-> TRUE],
     image_id |-> "", image_url |-> "", img |-> [none |-> TRUE],
     region |-> "", size |-> "", rotation |-> "", quality |-> ""]

Init ==
    /\ notebook \in {"NER", "IIIF"}
    /\ runAll \in {"off", "running"}
    /\ cursor = 1
    /\ manualRuns = 0
    /\ pc = Idle
    /\ ns = Unbound
    /\ bound = {}
    /\ err = "none"
    /\ gets = << >>
    /\ inflight = << >>
    /\ stdout = << >>
    /\ datasets = {}

(* name = value: the name is bound, whatever it was before. *)
Assign(name, value) ==
    /\ ns' = IF name \in DOMAIN ns THEN [ns EXCEPT ![name] = value] ELSE ns
    /\ bound' = IF name = "" THEN bound ELSE bound \cup {name}

(* Where control is once the statement at pc has completed. *)
After ==
    IF pc.body > 0
      THEN IF pc.body < Len(Code(pc.cell)[pc.stmt].body)
             THEN [pc EXCEPT !.body = @ + 1]
             ELSE [pc EXCEPT !.body = 0]
    ELSE IF pc.stmt < Len(Code(pc.cell))
      THEN At(pc.cell, pc.stmt + 1)
    ELSE Idle

(* The statement completes and the next one of the cell is up; after the   *)
(* cell's last statement a top-to-bottom run moves to the next cell.       *)
Proceed ==
    /\ pc' = After
    /\ err' = err
    /\ IF After = Idle /\ runAll = "running"
         THEN /\ cursor' = cursor + 1
              /\ runAll' = IF cursor = Len(Cells(notebook)) THEN "done" ELSE "running"
         ELSE UNCHANGED << cursor, runAll >>

(* Fault: the exception is swallowed and the cell goes on. *)
Raise_swallowed(exc) ==
    /\ pc' = After
    /\ err' = exc
    /\ runAll' = runAll
    /\ UNCHANGED << cursor, ns, bound >>

(* The statement raises.  No cell has a try/except: the exception reaches  *)
(* the notebook runtime, the rest of the cell is not executed and nothing  *)
(* is bound; a top-to-bottom run stops there.                              *)
Raise(exc) ==
    /\ pc' = Idle
    /\ err' = exc
    /\ runAll' = IF runAll = "running" THEN "aborted" ELSE runAll
    /\ UNCHANGED << cursor, ns, bound >>

StartCell(c) ==
    /\ pc' = At(c, 1)
    /\ err' = "none"
    /\ stdout' = << >>
    /\ UNCHANGED << notebook, runAll, cursor, ns, bound, gets, inflight, datasets >>

(* "Run all": the cells are executed in document order. *)
RunAllNext ==
    /\ ~Running
    /\ runAll = "running"
    /\ StartCell(Cells(notebook)[cursor])
    /\ UNCHANGED manualRuns

(* The reader executes one cell, any cell. *)
RunCell ==
    /\ ~Running
    /\ runAll # "running"
    /\ manualRuns < MaxManualRuns
    /\ \E k \in DOMAIN Cells(notebook) : StartCell(Cells(notebook)[k])
    /\ manualRuns' = manualRuns + 1

(* A statement reads a name that is not bound. *)
NameError ==
    /\ Running
    /\ pc.phase = "run"
    /\ ~(Stmt.reads \subseteq bound)
    /\ Raise("NameError")
    /\ UNCHANGED << notebook, manualRuns, gets, inflight, stdout, datasets >>

ExecImport ==
    /\ Ready("import")
    /\ Assign(Stmt.target, 0)
    /\ Proceed
    /\ UNCHANGED << notebook, manualRuns, gets, inflight, stdout, datasets >>

ExecShell ==
    /\ Ready("shell")
    /\ Proceed
    /\ UNCHANGED << notebook, manualRuns, ns, bound, gets, inflight, stdout, datasets >>

(* nltk.download(dataset) fetches the dataset, or reports that it could    *)
(* not and returns False; it does not raise.                               *)
ExecDownload ==
    /\ Ready("download")
    /\ \E fetched \in BOOLEAN :
          datasets' = IF fetched THEN datasets \cup {Stmt.dataset} ELSE datasets
    /\ Proceed
    /\ UNCHANGED << notebook, manualRuns, ns, bound, gets, inflight, stdout >>

ExecLit ==
    /\ Ready("lit")
    /\ Assign(Stmt.target, Stmt.value)
    /\ Proceed
    /\ UNCHANGED << notebook, manualRuns, gets, inflight, stdout, datasets >>

RECURSIVE Format(_, _)
(* An f-string: its literal text and the values of its fields, joined in   *)
(* order.                                                                  *)
Format(parts, env) ==
    IF Len(parts) = 0 THEN ""
    ELSE LET p == Head(parts)
         IN  (IF "var" \in DOMAIN p THEN env[p.var] ELSE p.lit)
                 \o Format(Tail(parts), env)

ExecFStr ==
    /\ Ready("fstr")
    /\ Assign(Stmt.target, Format(Stmt.parts, ns))
    /\ Proceed
    /\ UNCHANGED << notebook, manualRuns, gets, inflight, stdout, datasets >>

(* Fault: an URL fetched before is not requested again. *)
GetIssue_cached ==
    /\ Ready("get")
    /\ LET url == ns[Stmt.url]
           hit == \E k \in DOMAIN gets : gets[k].url = url
       IN  /\ gets' = IF hit THEN gets ELSE Append(gets, [cell |-> pc.cell, url |-> url])
           /\ inflight' = IF hit THEN inflight ELSE Append(inflight, url)
           /\ pc' = IF hit THEN After ELSE [pc EXCEPT !.phase = "wait"]
    /\ UNCHANGED << notebook, runAll, cursor, manualRuns, ns, bound, err, stdout,
                    datasets >>

(* Fault: the call returns before the request is answered. *)
GetIssue_async ==
    /\ Ready("get")
    /\ gets' = Append(gets, [cell |-> pc.cell, url |-> ns[Stmt.url]])
    /\ inflight' = Append(inflight, ns[Stmt.url])
    /\ pc' = At(pc.cell, pc.stmt + 1)
    /\ UNCHANGED << notebook, runAll, cursor, manualRuns, ns, bound, err, stdout,
                    datasets >>

(* requests.get(url): the request goes out and the call blocks. *)
GetIssue ==
    /\ Ready("get")
    /\ gets' = Append(gets, [cell |-> pc.cell, url |-> ns[Stmt.url]])
    /\ inflight' = Append(inflight, ns[Stmt.url])
    /\ pc' = [pc EXCEPT !.phase = "wait"]
    /\ UNCHANGED << notebook, runAll, cursor, manualRuns, ns, bound, err, stdout,
                    datasets >>

Waiting == Running /\ pc.phase = "wait"

(* The manifest request is answered: response is bound to the answer. *)
GetReturn ==
    /\ Waiting
    /\ ~Stmt.image
    /\ inflight' = Tail(inflight)
    /\ \E r \in ManifestResponses : Assign(Stmt.target, r)
    /\ Proceed
    /\ UNCHANGED << notebook, manualRuns, gets, stdout, datasets >>

(* An image request is answered and Image.open reads the body: img is      *)
(* bound to the image, or the body is no image and Image.open raises.      *)
GetImageReturn ==
    /\ Waiting
    /\ Stmt.image
    /\ inflight' = Tail(inflight)
    /\ \/ Assign(Stmt.target, [of |-> Head(inflight)]) /\ Proceed
       \/ Raise("UnidentifiedImageError")
    /\ UNCHANGED << notebook, manualRuns, gets, stdout, datasets >>

(* The request fails (no connection, no answer): requests.get raises. *)
GetRaise ==
    /\ Waiting
    /\ inflight' = Tail(inflight)
    /\ Raise("ConnectionError")
    /\ UNCHANGED << notebook, manualRuns, gets, stdout, datasets >>

(* response.json(): the body parsed, or an exception when it is not JSON. *)
ExecJson ==
    /\ Ready("json")
    /\ IF ns[Stmt.from].json
         THEN Assign(Stmt.target, ns[Stmt.from].body) /\ Proceed
         ELSE Raise("JSONDecodeError")
    /\ UNCHANGED << notebook, manualRuns, gets, inflight, stdout, datasets >>

ExecNew ==
    /\ Ready("new")
    /\ Assign(Stmt.target, 0)
    /\ Proceed
    /\ UNCHANGED << notebook, manualRuns, gets, inflight, stdout, datasets >>

(* An expression statement (a display, a pretty-print): it binds nothing. *)
ExecExpr ==
    /\ Ready("expr")
    /\ Proceed
    /\ UNCHANGED << notebook, manualRuns, ns, bound, gets, inflight, stdout, datasets >>

RECURSIVE Lookup(_, _)
(* value[k1][k2]...: a key a dict lacks raises KeyError, an index past the *)
(* end of a list IndexError.  Python's index 0 is the first element.       *)
Lookup(value, path) ==
    IF Len(path) = 0 THEN [ok |-> TRUE, val |-> value]
    ELSE LET step == Head(path)
         IN  IF "key" \in DOMAIN step
               THEN IF step.key \in DOMAIN value
                      THEN Lookup(value[step.key], Tail(path))
                      ELSE [ok |-> FALSE, exc |-> "KeyError"]
               ELSE IF step.idx < Len(value)
                      THEN Lookup(value[step.idx + 1], Tail(path))
                      ELSE [ok |-> FALSE, exc |-> "IndexError"]

ExecSubscript ==
    /\ Ready("subscript")
    /\ LET found == Lookup(ns[Stmt.from], Stmt.path)
       IN  IF found.ok
             THEN Assign(Stmt.target, found.val) /\ Proceed
             ELSE Raise(found.exc)
    /\ UNCHANGED << notebook, manualRuns, gets, inflight, stdout, datasets >>

(* for target in iter: the next element is bound and the body entered, or  *)
(* the list is exhausted and the loop is left.                             *)
ExecFor ==
    /\ Ready("for")
    /\ pc.body = 0
    /\ IF pc.iter < Len(ns[Stmt.iter])
         THEN /\ Assign(Stmt.target, ns[Stmt.iter][pc.iter + 1])
              /\ pc' = [pc EXCEPT !.iter = @ + 1, !.body = 1]
              /\ UNCHANGED << runAll, cursor, err >>
         ELSE /\ Proceed
              /\ UNCHANGED << ns, bound >>
    /\ UNCHANGED << notebook, manualRuns, gets, inflight, stdout, datasets >>

(* print(label, value[k1][k2]...) *)
ExecPrint ==
    /\ Ready("print")
    /\ LET found == Lookup(ns[Stmt.from], Stmt.path)
       IN  IF found.ok
             THEN /\ stdout' = Append(stdout, << Stmt.label, found.val >>)
                  /\ Proceed
                  /\ UNCHANGED << ns, bound >>
             ELSE /\ Raise(found.exc)
                  /\ UNCHANGED stdout
    /\ UNCHANGED << notebook, manualRuns, gets, inflight, datasets >>

(* The value an NLTK call returns. *)
NltkResult(fn, arg) ==
    CASE fn = "word_tokenize" -> word_tokenize(arg)
      [] fn = "pos_tag"       -> pos_tag(arg)
      [] fn = "ne_chunk"      -> ne_chunk(arg)
      [] fn = "upenn_tagset"  -> 0

ExecNltk ==
    /\ Ready("nltk")
    /\ IF Needs(Stmt.fn) \subseteq datasets
         THEN /\ Assign(Stmt.target,
                        NltkResult(Stmt.fn, IF Stmt.arg = "" THEN 0 ELSE ns[Stmt.arg]))
              /\ Proceed
         ELSE Raise("LookupError")
    /\ UNCHANGED << notebook, manualRuns, gets, inflight, stdout, datasets >>

Next ==
    \/ RunAllNext
    \/ RunCell
    \/ NameError
    \/ ExecImport
    \/ ExecShell
    \/ ExecDownload
    \/ ExecLit
    \/ ExecFStr
    \/ GetIssue
    \/ GetReturn
    \/ GetImageReturn
    \/ GetRaise
    \/ ExecJson
    \/ ExecNew
    \/ ExecExpr
    \/ ExecSubscript
    \/ ExecFor
    \/ ExecPrint
    \/ ExecNltk

Spec == Init /\ [][Next]_vars

TypeOK ==
    /\ notebook \in {"NER", "IIIF"}
    /\ runAll \in {"off", "running", "done", "aborted"}
    /\ cursor \in 1..(Len(Cells(notebook)) + 1)
    /\ manualRuns \in 0..MaxManualRuns
    /\ bound \subseteq (DOMAIN ns \cup {"nltk", "svgling", "requests", "pprint", "pp", "Image"})

----------------------------------------------------------------------------
(* Properties. *)

(* A run of the notebook from a fresh kernel, top to bottom, with no cell  *)
(* executed by hand.                                                       *)
TopToBottom == runAll # "off" /\ manualRuns = 0

(* An image request is outstanding. *)
ImageRequested == Waiting /\ Stmt.image

(* What follows image_id in the URL requested. *)
UrlTail == Drop(Head(inflight), Len(ns.image_id))

IsNumber(s) == s # "" /\ \A i \in 1..Len(s) : Char(s, i) \in Digits

(* region: full, or x,y,w,h *)
IsRegion(s) ==
    \/ s = "full"
    \/ LET p == Split(s, ",") IN Len(p) = 4 /\ \A k \in 1..4 : IsNumber(p[k])

(* size: max, or pct:n *)
IsSize(s) == s = "max" \/ (IsPrefix("pct:", s) /\ IsNumber(Drop(s, 4)))

IsRotation(s) == IsNumber(s)

(* quality.format *)
IsQualityFormat(s) ==
    LET p == Split(s, ".") IN Len(p) = 2 /\ p[1] # "" /\ p[2] # ""

(* C1: the URL of every image request has the form                         *)
(* scheme://server/prefix/identifier/region/size/rotation/quality.format:  *)
(* it is image_id followed by exactly four non-empty '/'-separated         *)
(* segments, a region, a size, a rotation and quality.format, in that      *)
(* order.                                                                  *)
C1_ImageUrlSyntax ==
    ImageRequested =>
        /\ IsPrefix(ns.image_id, Head(inflight))
        /\ LET all == Split(Head(inflight), "/")
           IN  /\ Len(all) >= 9
               /\ all[1] \in {"http:", "https:"}
               /\ all[2] = ""
               /\ \A k \in 3..Len(all) : all[k] # ""
        /\ LET segs == Split(UrlTail, "/")
           IN  /\ Len(segs) = 5
               /\ segs[1] = ""
               /\ \A k \in 2..5 : segs[k] # ""
               /\ IsRegion(segs[2])
               /\ IsSize(segs[3])
               /\ IsRotation(segs[4])
               /\ IsQualityFormat(segs[5])

(* The last image cell has requested a region x,y,w,h of the image. *)
C1_Witness ==
    /\ ImageRequested
    /\ pc.cell = "XB4vBnMtf5N8"
    /\ Split(UrlTail, "/")[2] = "3400,1400,2700,2700"

Params == {"region", "size", "rotation", "quality", "format"}

(* The component of the URL tail that a parameter stands for. *)
Component(tail, param) ==
    LET segs == Split(tail, "/")
        qf == Split(segs[5], ".")
    IN  CASE param = "region"   -> segs[2]
          [] param = "size"     -> segs[3]
          [] param = "rotation" -> segs[4]
          [] param = "quality"  -> qf[1]
          [] param = "format"   -> qf[2]

(* C2 as stated: in every image cell each of the five components of the    *)
(* URL is the value of the parameter variable of that name.                *)
C2_FiveParametersInterpolated ==
    ImageRequested =>
        \A p \in Params : p \in bound /\ Component(UrlTail, p) = ns[p]

(* C2, amended: the four image cells after the first take region, size,    *)
(* rotation and quality from the variables of those names and the format   *)
(* is the literal jpg; the first image cell takes none of them from a      *)
(* variable and requests full/max/0/default.jpg whatever the variables     *)
(* hold.                                                                   *)
C2_FourParametersInterpolated ==
    ImageRequested =>
        IF pc.cell = "yiMY_cLUroMv"
          THEN UrlTail = "/full/max/0/default.jpg"
          ELSE /\ {"region", "size", "rotation", "quality"} \subseteq bound
               /\ \A p \in {"region", "size", "rotation", "quality"} :
                      Component(UrlTail, p) = ns[p]
               /\ Component(UrlTail, "format") = "jpg"

(* The quality cell has requested the image, with the quality it has just  *)
(* bound.                                                                  *)
C2_Witness ==
    /\ ImageRequested
    /\ pc.cell = "ejjpwN7yEwvU"
    /\ Component(UrlTail, "quality") = "gray"

PresentationPrefix == "https://rosetta.slv.vic.gov.au/delivery/iiif/presentation/2.1/"

IsPresentationUrl(u) == IsPrefix(PresentationPrefix, u)

ManifestGets == {k \in DOMAIN gets : IsPresentationUrl(gets[k].url)}

ImageGets == {k \in DOMAIN gets : gets[k].cell \in ImageCells}

(* C3: a top-to-bottom run of the IIIF notebook issues one GET to the      *)
(* presentation endpoint, never more, for                                  *)
(* {server}/delivery/iiif/presentation/2.1/{ie_pid}/manifest, and issues   *)
(* it before any image GET.                                                *)
C3_OneManifestGet ==
    (TopToBottom /\ notebook = "IIIF") =>
        /\ Cardinality(ManifestGets) <= 1
        /\ \A k \in ManifestGets :
              gets[k].url = PresentationPrefix \o ns.ie_pid \o "/manifest"
        /\ \A k \in ImageGets : \E j \in ManifestGets : j < k
        /\ (runAll = "done" \/ cursor > 2) => Cardinality(ManifestGets) = 1

(* The run has gone through every cell and has requested images. *)
C3_Witness ==
    /\ TopToBottom /\ notebook = "IIIF" /\ runAll = "done"
    /\ Cardinality(ImageGets) = 5

Handoff(nb) ==
    IF nb = "NER" THEN {"about_slv", "tokens", "tagged_tokens", "entities"}
    ELSE {"ie_pid", "manifest", "canvases", "image_id", "image_url", "img"}

(* C4: in a top-to-bottom run no cell reads a name that no earlier cell    *)
(* has bound, and a run in which no call fails binds the whole chain.      *)
C4_NoUnboundRead ==
    TopToBottom =>
        /\ err # "NameError"
        /\ runAll = "done" => Handoff(notebook) \subseteq bound

(* The NER notebook has run to its end. *)
C4_Witness ==
    /\ TopToBottom /\ notebook = "NER" /\ runAll = "done"
    /\ Handoff("NER") \subseteq bound

LibraryErrors == {"ConnectionError", "UnidentifiedImageError", "JSONDecodeError",
                  "KeyError", "IndexError", "LookupError"}

(* C5: a failure of a library call ends the cell at the failing statement: *)
(* the cell is left, no variable changes (the one the statement would have *)
(* bound included), and a cell is only ever entered at its first statement.*)
C5_FailureHaltsCell ==
    [][ /\ (Running /\ err' \in LibraryErrors) =>
              /\ pc' = Idle
              /\ ns' = ns
              /\ bound' = bound
        /\ (~Running /\ Running') => (pc'.stmt = 1 /\ err' = "none")
      ]_vars

(* response.json() has raised: response is bound, manifest is not. *)
C5_Witness ==
    /\ err = "JSONDecodeError"
    /\ ~Running
    /\ "response" \in bound
    /\ "manifest" \notin bound

(* C6: a statement with a requests.get issues one GET each time it is      *)
(* executed, also for an URL fetched before; nothing else issues a GET,    *)
(* and a request that failed ends the cell.                                *)
C6_NoRetryNoCache ==
    [][ /\ Ready("get") =>
              gets' = Append(gets, [cell |-> pc.cell, url |-> ns[Stmt.url]])
        /\ ~Ready("get") => gets' = gets
        /\ (Waiting /\ err' = "ConnectionError") => ~Running'
      ]_vars

(* The same URL has been requested twice. *)
C6_Witness ==
    \E j, k \in DOMAIN gets : j < k /\ gets[j].url = gets[k].url

(* C7: at most one request is outstanding, and one is outstanding exactly  *)
(* while the kernel is blocked in the requests.get that issued it.         *)
C7_OneRequestAtATime ==
    /\ Len(inflight) <= 1
    /\ Len(inflight) = 1 <=> Waiting
    /\ Waiting => (Stmt.op = "get" /\ Head(inflight) = ns[Stmt.url])

(* A second request is outstanding, the first one answered. *)
C7_Witness ==
    /\ Waiting
    /\ Len(gets) = 2
    /\ Len(inflight) = 1

(* The output the notebook records for the tokens cell. *)
RecordedTokens == <<
    "Located", "in", "Melbourne", ",", "it", "was", "established", "in",
    "1854", "as", "the", "Melbourne", "Public", "Library", ",", "making",
    "it", "Australia", "'s", "oldest", "public", "library", "and", "one",
    "of", "the", "first", "free", "libraries", "in", "the", "world", "." >>

(* The output the notebook records for the tagged_tokens cell. *)
RecordedTaggedTokens == <<
    <<"Located", "VBN">>, <<"in", "IN">>, <<"Melbourne", "NNP">>,
    <<",", ",">>, <<"it", "PRP">>, <<"was", "VBD">>,
    <<"established", "VBN">>, <<"in", "IN">>, <<"1854", "CD">>,
    <<"as", "IN">>, <<"the", "DT">>, <<"Melbourne", "NNP">>,
    <<"Public", "NNP">>, <<"Library", "NNP">>, <<",", ",">>,
    <<"making", "VBG">>, <<"it", "PRP">>, <<"Australia", "NNP">>,
    <<"'s", "POS">>, <<"oldest", "JJS">>, <<"public", "JJ">>,
    <<"library", "NN">>, <<"and", "CC">>, <<"one", "CD">>, <<"of", "IN">>,
    <<"the", "DT">>, <<"first", "JJ">>, <<"free", "JJ">>,
    <<"libraries", "NNS">>, <<"in", "IN">>, <<"the", "DT">>,
    <<"world", "NN">>, <<".", ".">> >>

Punctuation == {",", "."}

HasChar(s, chars) == \E i \in 1..Len(s) : Char(s, i) \in chars

(* C8: the tokens of about_slv are the 33 recorded ones; a punctuation     *)
(* mark and the possessive 's are tokens of their own, and the blanks and  *)
(* line breaks of the literal give no token.                               *)
C8_Tokens ==
    "tokens" \in bound =>
        /\ ns.tokens = RecordedTokens
        /\ Len(ns.tokens) = 33
        /\ \A i \in DOMAIN ns.tokens :
              LET t == ns.tokens[i]
              IN  /\ t # ""
                  /\ ~HasChar(t, Whitespace)
                  /\ HasChar(t, Punctuation) => t \in Punctuation
                  /\ HasChar(t, {"'"}) => t = "'s"
        /\ ns.tokens[18] = "Australia" /\ ns.tokens[19] = "'s"

(* The tokens cell has run on the sentence of the notebook. *)
C8_Witness ==
    /\ "tokens" \in bound
    /\ ns.about_slv = about_slv_literal
    /\ Len(ns.tokens) = 33

TokensUnder(tree, k) == Len(Leaves(Tree(tree.label, SubSeq(tree.children, 1, k))))

(* The entity subtrees of a tree: label, and first and last token covered. *)
EntitySpans(tree) ==
    { [label |-> tree.children[k].label,
       first |-> TokensUnder(tree, k - 1) + 1,
       last  |-> TokensUnder(tree, k)] :
          k \in {j \in DOMAIN tree.children : ~IsLeaf(tree.children[j])} }

(* The words of tokens first..last of a tree. *)
WordsOf(tree, first, last) ==
    [i \in 1..(last - first + 1) |-> Leaves(tree)[first + i - 1][1]]

(* C10: the chunker marks three entities in the sentence, 'Melbourne'      *)
(* (token 3) as GPE, 'Melbourne Public Library' (tokens 12 to 14) as       *)
(* ORGANIZATION and 'Australia' (token 18) as GPE, and no other token is   *)
(* inside an entity.                                                       *)
C10_ThreeEntities ==
    "entities" \in bound =>
        /\ EntitySpans(ns.entities) =
              { [label |-> "GPE", first |-> 3, last |-> 3],
                [label |-> "ORGANIZATION", first |-> 12, last |-> 14],
                [label |-> "GPE", first |-> 18, last |-> 18] }
        /\ WordsOf(ns.entities, 3, 3) = << "Melbourne" >>
        /\ WordsOf(ns.entities, 12, 14) = << "Melbourne", "Public", "Library" >>
        /\ WordsOf(ns.entities, 18, 18) = << "Australia" >>
        /\ \A k \in DOMAIN ns.entities.children :
              ~IsLeaf(ns.entities.children[k]) =>
                  \A j \in DOMAIN ns.entities.children[k].children :
                      IsLeaf(ns.entities.children[k].children[j])
        /\ Len(Leaves(ns.entities)) = 33

(* The entities cell has run on the 33 tagged tokens. *)
C10_Witness ==
    /\ "entities" \in bound
    /\ Len(ns.tagged_tokens) = 33
    /\ Cardinality(EntitySpans(ns.entities)) = 3

(* The subtrees of a tree that are not leaves, the tree itself included. *)
RECURSIVE Subtrees(_)
Subtrees(node) ==
    IF IsLeaf(node) THEN {}
    ELSE {node} \cup UNION {Subtrees(node.children[k]) : k \in DOMAIN node.children}

(* C11: the entity tree has root label S, every internal node under the    *)
(* root carries an entity-type label and groups one or more tagged tokens, *)
(* and the leaves of the tree, read left to right, are the elements of     *)
(* tagged_tokens in the same order: no token is dropped, duplicated,       *)
(* reordered or retagged.                                                  *)
C11_TreeKeepsTaggedTokens ==
    "entities" \in bound =>
        /\ ns.entities.label = "S"
        /\ \A t \in Subtrees(ns.entities) \ {ns.entities} :
              /\ t.label \in Categories
              /\ Len(t.children) >= 1
        /\ Len(Leaves(ns.entities)) = Len(ns.tagged_tokens)
        /\ \A i \in DOMAIN ns.tagged_tokens :
              Leaves(ns.entities)[i] = ns.tagged_tokens[i]
        /\ Leaves(ns.entities) = RecordedTaggedTokens

(* The entities cell has run, and the tree groups three tokens under one   *)
(* internal node.                                                          *)
C11_Witness ==
    /\ "entities" \in bound
    /\ pc.cell = "J8_dmmr9JpSg"
    /\ \E t \in Subtrees(ns.entities) : t.label = "ORGANIZATION" /\ Len(t.children) = 3
    /\ Len(ns.tagged_tokens) = 33

(* The variables an image cell may bind: the URL, the image, and the       *)
(* parameters of the URL.                                                  *)
ImageCellTargets == {"image_url", "img", "region", "size", "rotation", "quality"}

(* C12: the manifest is only read.  No step of a cell other than the one   *)
(* that binds manifest changes manifest or the binding of the name, and a  *)
(* step of an image cell changes no variable other than image_url, img,    *)
(* region, size, rotation and quality (manifest, canvases and image_id     *)
(* among those it leaves alone) and binds no new name other than these and *)
(* the module name Image that the first image cell imports.                *)
C12_ManifestReadOnly ==
    [][ /\ (Running /\ pc.cell # "6MT9Vw7lpwTJ") =>
              /\ ns'.manifest = ns.manifest
              /\ ("manifest" \in bound') = ("manifest" \in bound)
        /\ ~Running => (ns' = ns /\ bound' = bound)
        /\ (Running /\ pc.cell \in ImageCells) =>
              /\ \A v \in DOMAIN ns \ ImageCellTargets : ns'[v] = ns[v]
              /\ ns'.manifest = ns.manifest
              /\ ns'.canvases = ns.canvases
              /\ ns'.image_id = ns.image_id
              /\ bound' \ bound \subseteq ImageCellTargets \cup {"Image"}
              /\ bound \subseteq bound'
      ]_vars

(* The first region cell has bound region, size, image_url and img, with   *)
(* the manifest, the canvases and image_id bound before it.                *)
C12_Witness ==
    /\ pc.cell = "zJrC2kW3D1x0"
    /\ pc.stmt = 5
    /\ {"manifest", "canvases", "image_id"} \subseteq bound
    /\ ns.region = "0,1400,2400,2300"
    /\ ns.size = "pct:15"
    /\ "of" \in DOMAIN ns.img
    /\ ns.img.of = ns.image_url

(* C13: the rotation of every image request is 0: the rotation segment of  *)
(* the URL requested is '0' in every image cell, in whatever order the     *)
(* cells are run, and the variable rotation never holds another value.     *)
C13_RotationFixed ==
    /\ ImageRequested => Component(UrlTail, "rotation") = "0"
    /\ "rotation" \in bound => ns.rotation = "0"

(* The size cell has requested the image with the rotation it has bound. *)
C13_Witness ==
    /\ ImageRequested
    /\ pc.cell = "4KtWqlaEtEuP"
    /\ "rotation" \in bound
    /\ Component(UrlTail, "rotation") = ns.rotation

LoopCell == "HM_Mm5aLadB_"

(* The image of the canvas the k-th line printed by the loop is about, and *)
(* the position of the line among the four lines of that canvas.           *)
LineCanvas(k) == ns.canvases[((k - 1) \div 4) + 1]

LinePosition(k) == ((k - 1) % 4) + 1

(* C14: the canvas loop visits every canvas of canvases once, in array     *)
(* order, and for each displays the id, the format, the height and the     *)
(* width of the canvas's image, in that order; it ends after len(canvases) *)
(* iterations.                                                             *)
C14_LoopDisplaysIdFormatHeightWidth ==
    pc.cell = LoopCell =>
        /\ pc.iter <= Len(ns.canvases)
        /\ Len(stdout) <= 4 * Len(ns.canvases)
        /\ pc.body > 0 => ns.canvas = ns.canvases[pc.iter]
        /\ \A k \in DOMAIN stdout :
              LET resource == LineCanvas(k).images[1].resource
                  shown == stdout[k][2]
              IN  CASE LinePosition(k) = 1 -> shown = resource.service["@id"]
                    [] LinePosition(k) = 2 -> shown = resource.format
                    [] LinePosition(k) = 3 -> shown = resource.height
                    [] LinePosition(k) = 4 -> shown = resource.width

(* The service '@id' of the first image of the first canvas. *)
FirstServiceId(canvases) == canvases[1].images[1].resource.service["@id"]

(* C15: image_id is the service '@id' of the first image of the first      *)
(* canvas: the image_id cell binds it to that value of canvases, no other  *)
(* cell changes it, and in a top-to-bottom run it is that value of the     *)
(* manifest fetched.  Every image URL requested begins with image_id,      *)
(* followed by '/', in every image cell and for any number of canvases.    *)
C15_ImageIdFromManifest ==
    [][ /\ (pc.cell = "mi4YnlC7bgnO" /\ pc.stmt = 1 /\ pc'.stmt = 2) =>
              /\ "image_id" \in bound'
              /\ ns'.image_id = FirstServiceId(ns.canvases)
        /\ pc.cell # "mi4YnlC7bgnO" => ns'.image_id = ns.image_id
        /\ (TopToBottom /\ "image_id" \in bound) =>
              ns.image_id = FirstServiceId(ns.manifest.sequences[1].canvases)
        /\ ImageRequested =>
              /\ "image_id" \in bound
              /\ IsPrefix(ns.image_id \o "/", Head(inflight))
      ]_vars

(* The first image cell has requested the image of the first of two        *)
(* canvases.                                                               *)
C15_Witness ==
    /\ ImageRequested
    /\ pc.cell = "yiMY_cLUroMv"
    /\ Len(ns.canvases) = 2
    /\ ns.image_id = FirstServiceId(ns.canvases)
    /\ "service" \in DOMAIN ns.canvases[2].images[1].resource
    /\ ns.image_id # ns.canvases[2].images[1].resource.service["@id"]

(* The labels of the entities a tree marks. *)
EntityLabels(tree) == {t.label : t \in Subtrees(tree) \ {tree}}

(* C16: every entity label of the entity tree is the label of one of the   *)
(* documented categories (Persons, Organizations, Locations, Facilities,   *)
(* Geographical Political Entities).                                       *)
C16_LabelsDocumented ==
    "entities" \in bound => EntityLabels(ns.entities) \subseteq Categories

(* The entities cell has run and the tree carries the labels GPE and       *)
(* ORGANIZATION.                                                           *)
C16_Witness ==
    /\ "entities" \in bound
    /\ EntityLabels(ns.entities) = {"GPE", "ORGANIZATION"}

(* The manifest request is outstanding. *)
ManifestRequested == Waiting /\ ~Stmt.image

(* C17: the presentation manifest is requested using image_id: when the    *)
(* manifest GET is issued the variable image_id is bound, and the URL      *)
(* requested is built from its value.                                      *)
C17_ManifestRequestedWithImageId ==
    ManifestRequested =>
        /\ "image_id" \in bound
        /\ Head(inflight) = PresentationPrefix \o ns.image_id \o "/manifest"

(* Whether a dict has the field a line of the loop displays, and the value *)
(* of the field.                                                           *)
HasField(label, entry) ==
    CASE label = "Image ID" -> "service" \in DOMAIN entry /\ "@id" \in DOMAIN entry.service
      [] label = "Format"   -> "format" \in DOMAIN entry
      [] label = "Width"    -> "width" \in DOMAIN entry
      [] label = "Height"   -> "height" \in DOMAIN entry

FieldOf(label, entry) ==
    CASE label = "Image ID" -> entry.service["@id"]
      [] label = "Format"   -> entry.format
      [] label = "Width"    -> entry.width
      [] label = "Height"   -> entry.height

(* The dict of a canvas the fields are read from: the first image entry    *)
(* itself, or the resource of that entry.                                  *)
FieldsAt(canvas, direct) ==
    IF direct THEN canvas.images[1] ELSE canvas.images[1].resource

(* A print of the canvas loop displays the field read from that dict and   *)
(* raises KeyError when the dict lacks it, and the image_id cell binds     *)
(* image_id to the service '@id' read from that dict of the first canvas.  *)
FieldsReadFrom(direct) ==
    /\ (pc.cell = LoopCell /\ Ready("print")) =>
          LET entry == FieldsAt(ns.canvas, direct)
          IN  IF HasField(Stmt.label, entry)
                THEN /\ stdout' = Append(stdout, << Stmt.label, FieldOf(Stmt.label, entry) >>)
                     /\ err' = err
                ELSE /\ stdout' = stdout
                     /\ err' = "KeyError"
    /\ (pc.cell = "mi4YnlC7bgnO" /\ Ready("subscript") /\ Len(ns.canvases) > 0) =>
          LET entry == FieldsAt(ns.canvases[1], direct)
          IN  IF HasField("Image ID", entry)
                THEN /\ ns'.image_id = FieldOf("Image ID", entry)
                     /\ "image_id" \in bound'
                ELSE /\ ns'.image_id = ns.image_id
                     /\ err' = "KeyError"

(* C18 as stated: the canvas loop and the image_id cell read 'service',    *)
(* 'format', 'width' and 'height' from canvas['images'][0] itself.         *)
C18_FieldsReadFromImageEntry == [][FieldsReadFrom(TRUE)]_vars

(* C18, amended: the canvas loop and the image_id cell read 'service',     *)
(* 'format', 'width' and 'height' from canvas['images'][0]['resource'],    *)
(* the resource of the image entry.                                        *)
C18_FieldsReadFromResource == [][FieldsReadFrom(FALSE)]_vars

(* The loop has displayed the four fields of the first canvas, read from   *)
(* the resource of its image entry.                                        *)
C18_Witness ==
    /\ pc.cell = LoopCell
    /\ Len(stdout) = 4
    /\ "resource" \in DOMAIN ns.canvases[1].images[1]
    /\ "format" \notin DOMAIN ns.canvases[1].images[1]
    /\ stdout[2] = << "Format", ns.canvases[1].images[1].resource.format >>
    /\ stdout[4] = << "Height", ns.canvases[1].images[1].resource.height >>

(* What follows image_id in the URL of the k-th GET. *)
TailOf(k) == Drop(gets[k].url, Len(ns.image_id))

(* The components in which the URLs of two image GETs differ. *)
Changed(j, k) == {p \in Params : Component(TailOf(j), p) # Component(TailOf(k), p)}

(* C19: in a top-to-bottom run the URL the quality cell requests differs   *)
(* from the URL the size cell requested before it in the quality alone     *)
(* (gray for default; region full, size pct:10, rotation 0 and format jpg  *)
(* stay), the URL of the first region cell differs from the one before it  *)
(* in region and size alone, and the URL of the second region cell from    *)
(* the one before it in region alone.                                      *)
C19_OnlyStatedParametersChange ==
    (TopToBottom /\ notebook = "IIIF") =>
        \A k \in ImageGets :
            /\ gets[k].cell = "ejjpwN7yEwvU" =>
                  /\ gets[k - 1].cell = "4KtWqlaEtEuP"
                  /\ Changed(k - 1, k) = {"quality"}
                  /\ Component(TailOf(k - 1), "quality") = "default"
                  /\ Component(TailOf(k), "quality") = "gray"
                  /\ Component(TailOf(k), "region") = "full"
                  /\ Component(TailOf(k), "size") = "pct:10"
                  /\ Component(TailOf(k), "rotation") = "0"
                  /\ Component(TailOf(k), "format") = "jpg"
            /\ gets[k].cell = "zJrC2kW3D1x0" =>
                  /\ gets[k - 1].cell = "ejjpwN7yEwvU"
                  /\ Changed(k - 1, k) = {"region", "size"}
            /\ gets[k].cell = "XB4vBnMtf5N8" =>
                  /\ gets[k - 1].cell = "zJrC2kW3D1x0"
                  /\ Changed(k - 1, k) = {"region"}

(* The top-to-bottom run has reached the request of the second region      *)
(* cell, the requests of the size, quality and first region cells made.    *)
C19_Witness ==
    /\ TopToBottom /\ notebook = "IIIF"
    /\ ImageRequested
    /\ pc.cell = "XB4vBnMtf5N8"
    /\ Len(gets) = 6
    /\ Changed(3, 4) = {"quality"}
    /\ Changed(5, 6) = {"region"}

(* size: pct:n *)
IsPercent(s) == IsPrefix("pct:", s) /\ IsNumber(Drop(s, 4))

(* C20 as stated: every image request of the IIIF notebook has a size      *)
(* segment of the form pct:n.                                              *)
C20_EverySizeByPercent ==
    ImageRequested => IsPercent(Component(UrlTail, "size"))

(* C20, amended: every image request of the four image cells after the     *)
(* first has a size segment of the form pct:n (pct:10 or pct:15); the      *)
(* first image cell requests the size max.                                 *)
C20_SizeByPercentAfterFirst ==
    ImageRequested =>
        IF pc.cell = "yiMY_cLUroMv"
          THEN Component(UrlTail, "size") = "max"
          ELSE /\ IsPercent(Component(UrlTail, "size"))
               /\ Component(UrlTail, "size") \in {"pct:10", "pct:15"}

(* The first region cell has requested the image at 15 per cent. *)
C20_Witness ==
    /\ ImageRequested
    /\ pc.cell = "zJrC2kW3D1x0"
    /\ Component(UrlTail, "size") = "pct:15"

(* The GETs a cell has issued, by their position in the log. *)
GetsOf(c) == {k \in DOMAIN gets : gets[k].cell = c}

(* C21: kernel bindings persist across cells.  In a top-to-bottom run the  *)
(* last image cell binds region only and requests                          *)
(* image_id/3400,1400,2700,2700/pct:15/0/gray.jpg: the size is the one the *)
(* first region cell requested, the quality the one the quality cell       *)
(* requested and the rotation the one the size cell requested; a run that  *)
(* ends has made that request last.                                        *)
C21_LastCellUsesEarlierBindings ==
    (TopToBottom /\ notebook = "IIIF") =>
        /\ \A k \in GetsOf("XB4vBnMtf5N8") :
              /\ gets[k].url = ns.image_id \o "/3400,1400,2700,2700/pct:15/0/gray.jpg"
              /\ \E j \in GetsOf("zJrC2kW3D1x0") :
                    j < k /\ Component(TailOf(j), "size") = Component(TailOf(k), "size")
              /\ \E j \in GetsOf("ejjpwN7yEwvU") :
                    j < k /\ Component(TailOf(j), "quality") = Component(TailOf(k), "quality")
              /\ \E j \in GetsOf("4KtWqlaEtEuP") :
                    j < k /\ Component(TailOf(j), "rotation") = Component(TailOf(k), "rotation")
        /\ (pc.cell = "XB4vBnMtf5N8" /\ pc.stmt > 1) =>
              /\ ns.region = "3400,1400,2700,2700"
              /\ ns.size = "pct:15"
              /\ ns.rotation = "0"
              /\ ns.quality = "gray"
        /\ runAll = "done" =>
              /\ GetsOf("XB4vBnMtf5N8") = {Len(gets)}
              /\ ns.image_url = ns.image_id \o "/3400,1400,2700,2700/pct:15/0/gray.jpg"

(* The top-to-bottom run has ended, the last image cell's request made and *)
(* its image bound.                                                        *)
C21_Witness ==
    /\ TopToBottom /\ notebook = "IIIF" /\ runAll = "done"
    /\ gets[Len(gets)].cell = "XB4vBnMtf5N8"
    /\ ns.img = [of |-> ns.image_id \o "/3400,1400,2700,2700/pct:15/0/gray.jpg"]

====
